---- MODULE Spec2Model ----
(***************************************************************************)
(* Employee / ProductionWorker / ShiftSupervisor of                        *)
(* supervisor_and_worker.py as a state machine.                            *)
(*                                                                         *)
(* One ProductionWorker object is modelled with all its validated fields   *)
(* (number, benefits, shift, rate, hour).  One ShiftSupervisor object is   *)
(* modelled with salary, shift, emp_array and number of workers.  The      *)
(* workers handed to add_to_array are a pool of ProductionWorker objects   *)
(* of which only employee_shift is tracked: it is the only field           *)
(* add_to_array reads.  Names are strings no property here depends on and  *)
(* are left out; the Employee part of the supervisor runs the very same    *)
(* employee_num setter as the worker's and is not duplicated.              *)
(*                                                                         *)
(* Arguments are integers or members of Shift, "type(x) is int" is         *)
(* therefore true of every integer argument.  "shift in Shift" (line 209)  *)
(* is read as the source's elif branch requires: true of a member of       *)
(* Shift, false of an integer.                                             *)
(***************************************************************************)
EXTENDS Integers, Sequences, FiniteSets, TLC

VARIABLES number, benefits, shift, rate, hour,
          salary, sup_shift, emp_array, num_worker,
          pool_shift, last

vars == <<number, benefits, shift, rate, hour,
          salary, sup_shift, emp_array, num_worker,
          pool_shift, last>>

worker_vars == <<number, benefits, shift, rate, hour>>
sup_vars == <<salary, sup_shift, emp_array, num_worker>>

(***************************************************************************)
(* Bounds of the model.                                                    *)
(***************************************************************************)
NumWorkers == 2
MaxHeld == 3
MaxHeldDriver == 5

Workers == 1..NumWorkers

(***************************************************************************)
(* Class constants.                                                        *)
(***************************************************************************)
DEFAULT_NUM == 1234
BENEFIT_ID == 5000
MIN_EMPLY_NUM == 1000
MAX_EMPLY_NUM == 99999

DEFAULT_HOURLY_RAY_RATE == 1
DEFAULT_HOURS_WORKED == 0
MIN_HOURLY_PAY_RATE == 0
MAX_HOURLY_PAY_RATE == 20
MIN_HOURS_WORKED == 0
MAX_HOURS_WORKED == 40

DEFAULT_SALARY == 50000
MIN_SALARY == 50000
MAX_SALARY == 200000
DEFAULT_CAPACITY == 10
DEFAULT_NUM_OF_WORKERS == 0
BONUS_ADD_TO_SALARY == 10000
WORKERS_REQUIRED == 4

\* class Shift(Enum): DAY = 1, SWING = 2, NIGHT = 3
Shift == {"DAY", "SWING", "NIGHT"}

\* the value of a member
ShiftValue(s) == CASE s = "DAY" -> 1 [] s = "SWING" -> 2 [] s = "NIGHT" -> 3

\* Shift(v): the member of value v
ShiftOf(v) == CHOOSE s \in Shift : ShiftValue(s) = v

DEFAULT_SHIFT == "DAY"
SUP_DEFAULT_SHIFT == "DAY"

\* an empty slot of the numpy object array
None == 0

(***************************************************************************)
(* Arguments the calls are made with.  A shift argument is a member of     *)
(* Shift (member = TRUE, v its value) or a plain integer (member = FALSE). *)
(***************************************************************************)
NumInputs == {999, 1000, 4999, 5000, 99999, 100000}
RateInputs == {-1, 0, 20, 21}
HourInputs == {-1, 0, 40, 41}
SalaryInputs == {49999, 50000, 195000, 200000, 200001}
CapInputs == {0, 3}
CountInputs == {-1, 0, 5}
ShiftInts == {0, 1, 2, 3, 7}
ShiftArgs == [member : {TRUE}, v : {ShiftValue(s) : s \in Shift}]
               \cup [member : {FALSE}, v : ShiftInts]

MemberArg(s) == [member |-> TRUE, v |-> ShiftValue(s)]

(***************************************************************************)
(* Validation helpers and what each setter stores.                         *)
(***************************************************************************)
validate_id(employee_id) ==
    MIN_EMPLY_NUM <= employee_id /\ employee_id <= MAX_EMPLY_NUM

determine_benefits(n) == n < BENEFIT_ID

\* Employee.employee_num setter: the number stored
employee_num_stored(n) == IF validate_id(n) THEN n ELSE DEFAULT_NUM

\* Employee.employee_num setter: the benefits flag stored; the code hands
\* determine_benefits the argument, not the number it has just stored
employee_num_benefits(n) == determine_benefits(n)

validate_rate(r) == MIN_HOURLY_PAY_RATE <= r /\ r <= MAX_HOURLY_PAY_RATE

validate_hour(h) == MIN_HOURS_WORKED <= h /\ h <= MAX_HOURS_WORKED

\* ProductionWorker.employee_shift setter: the shift stored
employee_shift_stored(a) ==
    IF a.member THEN ShiftOf(a.v)
    ELSE IF 1 <= a.v /\ a.v <= 3 THEN ShiftOf(a.v)
    ELSE DEFAULT_SHIFT

\* a setter that forgets to validate the rate
hourly_pay_rate_unchecked(r) == r

hourly_pay_rate_stored(r) == IF validate_rate(r) THEN r ELSE DEFAULT_HOURLY_RAY_RATE

hours_worked_stored(h) == IF validate_hour(h) THEN h ELSE DEFAULT_HOURS_WORKED

gross_pay(r, h) == IF validate_rate(r) /\ validate_hour(h) THEN r * h ELSE 0

\* the gross pay ProductionWorker.__str__ prints, from the stored fields
str_gross_pay == gross_pay(rate, hour)

valid_salary(s) == MIN_SALARY <= s /\ s <= MAX_SALARY

\* a setter that forgets to validate the salary
annual_salary_unchecked(s) == s

annual_salary_stored(s) == IF valid_salary(s) THEN s ELSE DEFAULT_SALARY

\* ShiftSupervisor.supervisor_shift setter: the shift stored
supervisor_shift_stored(a) ==
    IF a.member THEN ShiftOf(a.v)
    ELSE IF 1 <= a.v /\ a.v <= 3 THEN ShiftOf(a.v)
    ELSE SUP_DEFAULT_SHIFT

number_of_workers_stored(n) == IF n <= 0 THEN DEFAULT_NUM_OF_WORKERS ELSE n

valid_arr_capacity(c) == IF c > 0 THEN c ELSE DEFAULT_CAPACITY

\* numpy.empty(shape=(1, c), dtype=ProductionWorker): c empty slots
numpy_empty(c) == [i \in 1..c |-> None]

\* an insert at the front instead of an append
numpy_append_front(a, x) == <<x>> \o a

\* a delete that is forgotten
numpy_delete0_keep(a) == a

\* numpy.append(a, x) flattens a and puts x behind it;
\* numpy.delete(a, 0) drops the first element
numpy_append(a, x) == Append(a, x)
numpy_delete0(a) == Tail(a)

\* a capacity test that is off by one
size_off_by_one(a) == Len(a) + 1

\* emp_array.size
size(a) == Len(a)

\* the workers __str__ lists: the entries that are not None, in order
RECURSIVE the_array(_)
the_array(a) ==
    IF a = <<>> THEN <<>>
    ELSE IF Head(a) = None THEN the_array(Tail(a))
    ELSE <<Head(a)>> \o the_array(Tail(a))

\* the workers held in the roster, as a set
Held(a) == {a[i] : i \in DOMAIN a} \ {None}

\* a shift gate that lets every worker through
shift_valid_any(w) == TRUE

shift_valid(w) == pool_shift[w] = sup_shift

\* the record of the call just made: its name, its integer arguments,
\* whether IsFull left it (add_to_array catches ValueError only, so the
\* IsFull it raises reaches the caller), and what bonus() returned
Call(op, args) == [op |-> op, args |-> args, raised |-> FALSE, ret |-> FALSE]

(***************************************************************************)
(* Construction.                                                           *)
(***************************************************************************)
\* ProductionWorker(name, n, s, r, h)
ProductionWorker_init(n, s, r, h) ==
    /\ shift = employee_shift_stored(s)
    /\ rate = hourly_pay_rate_stored(r)
    /\ hour = hours_worked_stored(h)
    /\ number = employee_num_stored(n)
    /\ benefits = employee_num_benefits(n)

\* ShiftSupervisor(name, number, sal, s, cap, cnt)
ShiftSupervisor_init(sal, s, cap, cnt) ==
    /\ salary = annual_salary_stored(sal)
    /\ sup_shift = supervisor_shift_stored(s)
    /\ emp_array = numpy_empty(valid_arr_capacity(cap))
    /\ num_worker = number_of_workers_stored(cnt)

\* the supervisor under study, built with the salary of supervisor1 of
\* main() and any shift, capacity and number of workers, and a pool of
\* workers of any shifts; the detailed worker is worker1 of main()
Init ==
    /\ ProductionWorker_init(1340, MemberArg("NIGHT"), 20, 10)
    /\ \E s \in ShiftArgs, cap \in CapInputs, cnt \in CountInputs :
          /\ ShiftSupervisor_init(68590, s, cap, cnt)
          /\ last = Call("ShiftSupervisor", <<cap>>)
    /\ pool_shift \in [Workers -> Shift]

\* a supervisor built from any salary, shift and capacity, the number of
\* workers left to its default
InitDriver ==
    /\ ProductionWorker_init(1340, MemberArg("NIGHT"), 20, 10)
    /\ \E sal \in SalaryInputs, s \in ShiftArgs, cap \in CapInputs :
          /\ ShiftSupervisor_init(sal, s, cap, DEFAULT_NUM_OF_WORKERS)
          /\ last = Call("ShiftSupervisor", <<cap>>)
    /\ pool_shift \in [Workers -> Shift]

\* a ProductionWorker built from any arguments; ShiftSupervisor() with
\* every argument left to its default
InitWorker ==
    /\ \E n \in NumInputs, s \in ShiftArgs, r \in RateInputs, h \in HourInputs :
          /\ ProductionWorker_init(n, s, r, h)
          /\ last = Call("ProductionWorker", <<n, r, h>>)
    /\ ShiftSupervisor_init(DEFAULT_SALARY, MemberArg(SUP_DEFAULT_SHIFT),
                            DEFAULT_CAPACITY, DEFAULT_NUM_OF_WORKERS)
    /\ pool_shift = [w \in Workers |-> DEFAULT_SHIFT]

\* both objects built from any arguments
InitFields ==
    /\ \E n \in NumInputs, s \in ShiftArgs, r \in RateInputs, h \in HourInputs :
          ProductionWorker_init(n, s, r, h)
    /\ \E sal \in SalaryInputs, s \in ShiftArgs, cap \in CapInputs, cnt \in CountInputs :
          /\ ShiftSupervisor_init(sal, s, cap, cnt)
          /\ last = Call("ShiftSupervisor", <<cap>>)
    /\ pool_shift = [w \in Workers |-> DEFAULT_SHIFT]

(***************************************************************************)
(* Employee and ProductionWorker setters.                                  *)
(***************************************************************************)
set_employee_num(n) ==
    /\ number' = employee_num_stored(n)
    /\ benefits' = employee_num_benefits(n)
    /\ last' = Call("employee_num", <<n>>)
    /\ UNCHANGED <<shift, rate, hour, sup_vars, pool_shift>>

set_employee_shift(a) ==
    /\ shift' = employee_shift_stored(a)
    /\ last' = Call(IF a.member THEN "employee_shift(Shift)" ELSE "employee_shift", <<a.v>>)
    /\ UNCHANGED <<number, benefits, rate, hour, sup_vars, pool_shift>>

set_hourly_pay_rate(r) ==
    /\ rate' = hourly_pay_rate_stored(r)
    /\ last' = Call("hourly_pay_rate", <<r>>)
    /\ UNCHANGED <<number, benefits, shift, hour, sup_vars, pool_shift>>

set_hours_worked(h) ==
    /\ hour' = hours_worked_stored(h)
    /\ last' = Call("hours_worked", <<h>>)
    /\ UNCHANGED <<number, benefits, shift, rate, sup_vars, pool_shift>>

\* the employee_shift setter of a worker of the pool
set_pool_shift(w, a) ==
    /\ pool_shift' = [pool_shift EXCEPT ![w] = employee_shift_stored(a)]
    /\ last' = Call("pool.employee_shift", <<>>)
    /\ UNCHANGED <<worker_vars, sup_vars>>

(***************************************************************************)
(* ShiftSupervisor.                                                        *)
(***************************************************************************)
set_annual_salary(s) ==
    /\ salary' = annual_salary_stored(s)
    /\ last' = Call("annual_salary", <<s>>)
    /\ UNCHANGED <<worker_vars, sup_shift, emp_array, num_worker, pool_shift>>

set_supervisor_shift(a) ==
    /\ sup_shift' = supervisor_shift_stored(a)
    /\ last' = Call(IF a.member THEN "supervisor_shift(Shift)" ELSE "supervisor_shift", <<a.v>>)
    /\ UNCHANGED <<worker_vars, salary, emp_array, num_worker, pool_shift>>

set_number_of_workers(n) ==
    /\ num_worker' = number_of_workers_stored(n)
    /\ last' = Call("number_of_workers", <<n>>)
    /\ UNCHANGED <<worker_vars, salary, sup_shift, emp_array, pool_shift>>

\* add_to_array(worker w of the pool)
add_to_array(w) ==
    /\ IF ~shift_valid(w)
       THEN /\ last' = Call("add_to_array", <<w>>)
            /\ UNCHANGED <<emp_array, num_worker>>
       ELSE IF size(emp_array) <= num_worker
       THEN /\ last' = [Call("add_to_array", <<w>>) EXCEPT !.raised = TRUE]
            /\ UNCHANGED <<emp_array, num_worker>>
       ELSE /\ emp_array' = numpy_delete0(numpy_append(emp_array, w))
            /\ num_worker' = number_of_workers_stored(num_worker + 1)
            /\ last' = Call("add_to_array", <<w>>)
    /\ UNCHANGED <<worker_vars, salary, sup_shift, pool_shift>>

bonus ==
    /\ IF num_worker > WORKERS_REQUIRED
       THEN /\ salary' = annual_salary_stored(salary + BONUS_ADD_TO_SALARY)
            /\ last' = [Call("bonus", <<>>) EXCEPT !.ret = TRUE]
       ELSE /\ salary' = salary
            /\ last' = Call("bonus", <<>>)
    /\ UNCHANGED <<worker_vars, sup_shift, emp_array, num_worker, pool_shift>>

(***************************************************************************)
(* Specifications.                                                         *)
(***************************************************************************)
\* the roster under every operation that reads or writes what add_to_array
\* reads; workers are handed over while fewer than MaxHeld are held or the
\* array is full
Next ==
    \/ \E w \in Workers :
          /\ \/ Len(the_array(emp_array)) < MaxHeld
             \/ Len(the_array(emp_array)) = Len(emp_array)
          /\ add_to_array(w)
    \/ \E n \in CountInputs : set_number_of_workers(n)
    \/ \E a \in ShiftArgs : set_supervisor_shift(a)
    \/ \E w \in Workers, a \in ShiftArgs : set_pool_shift(w, a)

Spec == Init /\ [][Next]_vars

\* what main() does with a supervisor: add workers, ask for the bonus;
\* workers are handed over while fewer than MaxHeldDriver are held or the
\* array is full
NextDriver ==
    \/ \E w \in Workers :
          /\ \/ Len(the_array(emp_array)) < MaxHeldDriver
             \/ Len(the_array(emp_array)) = Len(emp_array)
          /\ add_to_array(w)
    \/ bonus

SpecDriver == InitDriver /\ [][NextDriver]_vars

\* one ProductionWorker and its setters
NextWorker ==
    \/ \E n \in NumInputs : set_employee_num(n)
    \/ \E a \in ShiftArgs : set_employee_shift(a)
    \/ \E r \in RateInputs : set_hourly_pay_rate(r)
    \/ \E h \in HourInputs : set_hours_worked(h)

SpecWorker == InitWorker /\ [][NextWorker]_vars

\* every validated field of both objects, and bonus()
NextFields ==
    \/ NextWorker
    \/ \E s \in SalaryInputs : set_annual_salary(s)
    \/ \E a \in ShiftArgs : set_supervisor_shift(a)
    \/ \E n \in CountInputs : set_number_of_workers(n)
    \/ bonus

SpecFields == InitFields /\ [][NextFields]_vars

(***************************************************************************)
(* Properties.                                                             *)
(***************************************************************************)
\* the worker the last add_to_array was called with
AddedWorker(c) == c.args[1]

\* C1: add_to_array called with a worker of the supervisor's shift while
\* the number of workers is at least the size of the array raises IsFull
\* to the caller and leaves the number of workers and the array as they
\* were.
C1_FullRosterRaisesIsFull ==
    [][(/\ last'.op = "add_to_array"
        /\ pool_shift[AddedWorker(last')] = sup_shift
        /\ num_worker >= Len(emp_array))
       => (/\ last'.raised
           /\ num_worker' = num_worker
           /\ emp_array' = emp_array)]_vars

\* capacity 3, shift NIGHT, three NIGHT workers held, and a further NIGHT
\* worker has just been refused with IsFull
C1_Witness ==
    /\ last.op = "add_to_array"
    /\ last.raised
    /\ sup_shift = "NIGHT"
    /\ pool_shift[AddedWorker(last)] = "NIGHT"
    /\ Len(emp_array) = 3
    /\ Len(the_array(emp_array)) = 3
    /\ num_worker = 3

\* C2 (as claimed): bonus() returns true iff the number of workers exceeds
\* 4; a true-returning call leaves salary exactly 10000 larger, a
\* false-returning call leaves it unchanged.
C2_BonusAddsExactly10000 ==
    [][last'.op = "bonus"
       => (/\ last'.ret = (num_worker > 4)
           /\ (last'.ret => salary' = salary + 10000)
           /\ (~last'.ret => salary' = salary))]_vars

\* C3 (as claimed): the benefits flag equals (stored id < 5000), the stored
\* id being the given one when it lies in [1000, 99999] and 1234 otherwise.
C3_BenefitsMatchStoredId ==
    /\ benefits = (number < 5000)
    /\ last.op \in {"ProductionWorker", "employee_num"}
       => number = (IF 1000 <= last.args[1] /\ last.args[1] <= 99999
                    THEN last.args[1] ELSE 1234)

\* C4 (as claimed): the number of workers equals the number of
\* ProductionWorker entries held in the array.
C4_CountMatchesRoster ==
    num_worker = Len(the_array(emp_array))

\* C5: the array built for capacity argument c has c slots when c is
\* positive and 10 otherwise, no operation changes the number of slots, and
\* the workers held never outnumber the slots.
C5_RosterWithinCapacity ==
    /\ [](/\ last.op = "ShiftSupervisor"
             => Len(emp_array) = (IF last.args[1] > 0 THEN last.args[1] ELSE 10)
          /\ Cardinality({i \in DOMAIN emp_array : emp_array[i] # None}) <= Len(emp_array)
          /\ Len(emp_array) \in {IF c > 0 THEN c ELSE 10 : c \in CapInputs})
    /\ [][Len(emp_array') = Len(emp_array)]_vars

\* a capacity-3 array has just taken its third worker and has 3 slots still
C5_Witness ==
    /\ last.op = "add_to_array"
    /\ ~last.raised
    /\ Len(emp_array) = 3
    /\ Len(the_array(emp_array)) = 3

\* C6: add_to_array called with a worker of another shift changes neither
\* the number of workers, nor the array, nor the salary, and raises
\* nothing, whatever the state of the supervisor.
C6_ShiftMismatchIsNoOp ==
    [][(/\ last'.op = "add_to_array"
        /\ pool_shift[AddedWorker(last')] # sup_shift)
       => (/\ ~last'.raised
           /\ num_worker' = num_worker
           /\ emp_array' = emp_array
           /\ salary' = salary)]_vars

\* a worker of another shift has just been handed to a supervisor whose
\* array is full, and nothing was raised
C6_Witness ==
    /\ last.op = "add_to_array"
    /\ pool_shift[AddedWorker(last)] # sup_shift
    /\ ~last.raised
    /\ Len(the_array(emp_array)) = Len(emp_array)
    /\ num_worker >= Len(emp_array)

\* the rate and the hours a ProductionWorker was built from
BuiltRate(c) == c.args[2]
BuiltHours(c) == c.args[3]

\* C7 (as claimed): a ProductionWorker built from rate r and hours h shows
\* gross pay 0 when r is outside [0, 20] or h is outside [0, 40], and
\* r * h otherwise.
C7_GrossPayZeroWhenInvalid ==
    last.op = "ProductionWorker"
    => LET r == BuiltRate(last)
           h == BuiltHours(last)
       IN  IF r < 0 \/ r > 20 \/ h < 0 \/ h > 40
           THEN str_gross_pay = 0
           ELSE str_gross_pay = r * h

\* C7 (amended): a ProductionWorker built from rate r and hours h shows the
\* product of the rate and hours it stores: r, or 1 when r is outside
\* [0, 20], times h, or 0 when h is outside [0, 40].
C7_GrossPayOfStoredFields ==
    last.op = "ProductionWorker"
    => LET r == BuiltRate(last)
           h == BuiltHours(last)
       IN  str_gross_pay = (IF 0 <= r /\ r <= 20 THEN r ELSE 1)
                             * (IF 0 <= h /\ h <= 40 THEN h ELSE 0)

\* a worker built from an out-of-range rate and 40 hours shows 40
C7_Witness ==
    /\ last.op = "ProductionWorker"
    /\ BuiltRate(last) > 20
    /\ BuiltHours(last) = 40
    /\ str_gross_pay = 40

C9_HeldWorkersOnlyGrow ==
    [][Held(emp_array) \subseteq Held(emp_array')]_vars

\* C10: from a supervisor built with the default number of workers, a call
\* of add_to_array with a worker of the supervisor's shift while fewer
\* workers are held than there are slots puts the worker behind the held
\* ones and adds exactly 1 to the number of workers; any other call leaves
\* both alone; the number of workers is the number held, at most the number
\* of slots.
C10_RosterIsSuccessfulAddsInOrder ==
    /\ [](/\ num_worker = Len(the_array(emp_array))
          /\ num_worker <= Len(emp_array))
    /\ [][last'.op = "add_to_array"
          => IF /\ pool_shift[AddedWorker(last')] = sup_shift
                /\ Len(the_array(emp_array)) < Len(emp_array)
             THEN /\ the_array(emp_array') = Append(the_array(emp_array), AddedWorker(last'))
                  /\ num_worker' = num_worker + 1
             ELSE /\ the_array(emp_array') = the_array(emp_array)
                  /\ num_worker' = num_worker]_vars

\* workers 2, 1, 2 were added in that order and are listed in that order
C10_Witness ==
    /\ last.op = "add_to_array"
    /\ the_array(emp_array) = <<2, 1, 2>>
    /\ num_worker = 3

====
